---- MODULE Spec2Model ----
(***************************************************************************)
(* State-machine model of the TMFG class of src/TMFG_core.py: one instance *)
(* with its fields, the call fit / fit_transform split at the positions    *)
(* of __compute_TMFG (seed phase, one insertion-loop iteration, output     *)
(* projection), and transform.  Spec has one call to fit on a fresh        *)
(* instance, SpecRefit repeated calls on one instance.                     *)
(*                                                                         *)
(* Python lists are sequences (position k of the list is element k+1),     *)
(* numpy arrays and matrices are functions over 0..n-1.  Matrix entries    *)
(* are integers; the local inverses of the inverse-covariance projector    *)
(* are exact rationals <<numerator, denominator>>.                         *)
(***************************************************************************)
EXTENDS Integers, Sequences, FiniteSets, TLC

\* Largest number of vertices N of an input weight matrix.
MaxN == 6

\* Largest number of vertices in the runs of repeated calls, and the number
\* of calls to fit made on one instance in them.
RefitMaxN == 5
MaxCalls == 3

\* Entries of the input weight matrices off the diagonal.
WeightValues == {-1, 0, 1}

\* Python's None in a field that otherwise holds a matrix or a tuple (no
\* matrix and no returned tuple is empty).
None == <<>>

Modes == {"logo", "unweighted_sparse_W_matrix", "weighted_sparse_W_matrix"}
\* The output selectors a caller passes: the three documented ones and one
\* that is none of them.
Outputs == Modes \cup {"other"}

Idx(n) == 0 .. (n - 1)

\* f as an explicitly enumerated function (TLC otherwise re-evaluates the
\* defining expression of f at every application).
Arr(f) == f @@ <<>>

\* The rows x cols matrix of entries E(i, j).
Mat(rows, cols, E(_, _)) ==
    Arr([i \in Idx(rows) |-> Arr([j \in Idx(cols) |-> E(i, j)])])

Abs(x) == IF x < 0 THEN -x ELSE x

\* Number of rows / of columns of a matrix (shape[0], shape[1]).
Rows(M) == Cardinality(DOMAIN M)
Cols(M) == Cardinality(DOMAIN M[0])

-----------------------------------------------------------------------------
(* Inputs of a call.                                                       *)

\* A symmetric n x n weight matrix with diagonal 1 whose entry [i,j] is
\* t[|i-j|], plus b for the pair {0,1}; given with `rows` rows (rows # n:
\* not square; the rows past n are zero).
WeightMatrix(n, rows, t, b) ==
    Mat(rows, n, LAMBDA i, j :
        IF i >= n THEN 0
        ELSE IF i = j THEN 1
        ELSE t[Abs(i - j)] + (IF {i, j} = {0, 1} THEN b ELSE 0))

\* Covariance matrices of dimension d: "pd" is tridiagonal and positive
\* definite; "dup" is the covariance of variables of which 0 and 1 are the
\* same variable (rows 0 and 1 equal: every submatrix holding both is
\* singular, every other one is positive definite).

\* The calls made: <<extra rows of the weight matrix, kind of the covariance
\* matrix, its extra dimension, output selector>>.  Well-formed matrices go
\* with every selector, a singular covariance matrix with the selector that
\* reads it, a covariance matrix that is too large and a weight matrix that
\* is not square with a selector of a sparse mode.
Calls ==
    {<<0, "pd", 0, o>> : o \in Outputs}
        \cup {<<0, "dup", 0, "logo">>,
              <<0, "pd", 1, "unweighted_sparse_W_matrix">>,
              <<1, "pd", 0, "unweighted_sparse_W_matrix">>}
CovBase(i, j) == IF i = j THEN 2 ELSE IF Abs(i - j) = 1 THEN 1 ELSE 0
CovMatrix(d, kind) ==
    LET f(i) == IF kind = "dup" /\ i = 0 THEN 1 ELSE i
    IN  Mat(d, d, LAMBDA i, j : CovBase(f(i), f(j)))

-----------------------------------------------------------------------------
(* utils.max_clique and utils.get_best_gain.                               *)

Quadruples(n) ==
    UNION {UNION {UNION {{<<a, b, c, d>> : d \in (c + 1)..(n - 1)}
                            : c \in (b + 1)..(n - 2)}
                     : b \in (a + 1)..(n - 3)}
              : a \in 0..(n - 4)}

QuadWeight(W, q) ==
    W[q[1]][q[2]] + W[q[1]][q[3]] + W[q[1]][q[4]]
  + W[q[2]][q[3]] + W[q[2]][q[4]] + W[q[3]][q[4]]

LexLess(p, q) ==
    \E k \in 1..4 : p[k] < q[k] /\ \A m \in 1..(k - 1) : p[m] = q[m]

\* The 4 vertices of largest summed pairwise weight, the first such
\* quadruple in ascending lexicographic order.
max_clique(W, n) ==
    CHOOSE q \in Quadruples(n) :
        \A p \in Quadruples(n) :
            \/ QuadWeight(W, p) < QuadWeight(W, q)
            \/ QuadWeight(W, p) = QuadWeight(W, q) /\ ~LexLess(p, q)

Gain(W, v, triangle) ==
    W[v][triangle[1]] + W[v][triangle[2]] + W[v][triangle[3]]

\* <<index_max, max_element>>: the unplaced vertex of largest gain on the
\* face (the lowest one among equals) and its gain; <<-1, 0>> when no
\* vertex is unplaced.
get_best_gain(vertex_list, triangle, W) ==
    IF vertex_list = {} THEN <<-1, 0>>
    ELSE LET v == CHOOSE x \in vertex_list :
                    \A y \in vertex_list :
                        \/ Gain(W, y, triangle) < Gain(W, x, triangle)
                        \/ Gain(W, y, triangle) = Gain(W, x, triangle) /\ x <= y
         IN  <<v, Gain(W, v, triangle)>>

-----------------------------------------------------------------------------
(* numpy.linalg.inv on integer matrices, in exact rational arithmetic.     *)

RECURSIVE Gcd(_, _)
Gcd(a, b) == IF b = 0 THEN a ELSE Gcd(b, a % b)

\* The rational n/d (d # 0) in lowest terms with a positive denominator.
Rat(n, d) ==
    LET g == Gcd(Abs(n), Abs(d))
        s == IF d < 0 THEN -1 ELSE 1
    IN  <<(s * n) \div g, (s * d) \div g>>

RatZero == <<0, 1>>
RatAdd(x, y) == Rat(x[1] * y[2] + y[1] * x[2], x[2] * y[2])
RatSub(x, y) == Rat(x[1] * y[2] - y[1] * x[2], x[2] * y[2])

\* The sequence q without its element at position j.
Drop(q, j) == SubSeq(q, 1, j - 1) \o SubSeq(q, j + 1, Len(q))

\* The indices 0, ..., k-1 in order.
Iota(k) == [i \in 1..k |-> i - 1]

\* Determinant of the submatrix of M at the rows rs and the columns cs
\* (sequences of equal length), by expansion along its first row.
RECURSIVE Minor(_, _, _)
Minor(M, rs, cs) ==
    IF Len(rs) = 1 THEN M[rs[1]][cs[1]]
    ELSE IF Len(rs) = 2
    THEN M[rs[1]][cs[1]] * M[rs[2]][cs[2]] - M[rs[1]][cs[2]] * M[rs[2]][cs[1]]
    ELSE LET RECURSIVE Row(_)
             Row(j) == IF j > Len(cs) THEN 0
                       ELSE (IF j % 2 = 1 THEN 1 ELSE -1) * M[rs[1]][cs[j]]
                                * Minor(M, Tail(rs), Drop(cs, j))
                            + Row(j + 1)
         IN  Row(1)

Det(M, k) == Minor(M, Iota(k), Iota(k))

\* inv raises LinAlgError on a singular matrix.
Singular(M, k) == Det(M, k) = 0

\* The inverse of a k x k matrix, k >= 2: the transposed cofactors over the
\* determinant.
inv_entry(M, k, i, j) ==
    Rat((IF (i + j) % 2 = 0 THEN 1 ELSE -1)
            * Minor(M, Drop(Iota(k), j + 1), Drop(Iota(k), i + 1)), Det(M, k))

inv(M, k) == Mat(k, k, LAMBDA i, j : inv_entry(M, k, i, j))

\* The row or column a Python index k selects in an axis of length n
\* (a negative index counts from the end).
PyIndex(k, n) == IF k < 0 THEN k + n ELSE k

\* C[np.ix_(c, c)]: the rows and columns of C at the vertices of the list c.
Submatrix(C, c) ==
    LET d == Rows(C)
    IN  Mat(Len(c), Len(c), LAMBDA a, b :
            C[PyIndex(c[a + 1], d)][PyIndex(c[b + 1], d)])

\* Position (from 0) in the index list c of the entry that selects row i.
PosIn(c, i, n) == (CHOOSE k \in 1..Len(c) : PyIndex(c[k], n) = i) - 1

InList(c, i, n) == \E k \in 1..Len(c) : PyIndex(c[k], n) = i

-----------------------------------------------------------------------------
(* The three output projectors.  Each yields [J, err]: the matrix as the   *)
(* method leaves it and the exception it raises ("none": it returns).      *)

Zeros(n) == Mat(n, n, LAMBDA i, j : 0)

\* Mutant of fill_diagonal: the diagonal is left as it is.
fill_diagonal_skipped(J, n, x) == J

fill_diagonal(J, n, x) ==
    Mat(n, n, LAMBDA i, j : IF i = j THEN x ELSE J[i][j])

\* J[np.ix_(c, c)] = 1 for every clique c in turn, then the diagonal is
\* zeroed.  (unweighted_skips_seed: the mutant that starts at the second
\* clique.)
RECURSIVE ix_set_ones(_, _, _, _)
ix_set_ones(J, n, cs, k) ==
    IF k > Len(cs) THEN J
    ELSE ix_set_ones(
            Mat(n, n, LAMBDA i, j :
                IF InList(cs[k], i, n) /\ InList(cs[k], j, n) THEN 1 ELSE J[i][j]),
            n, cs, k + 1)

unweighted_skips_seed(original_W_, rows, cliques_) ==
    [J   |-> fill_diagonal(ix_set_ones(Zeros(rows), rows, cliques_, 2), rows, 0),
     err |-> "none"]

unweighted_sparse_W_matrix_J(original_W_, rows, cliques_) ==
    [J   |-> fill_diagonal(ix_set_ones(Zeros(rows), rows, cliques_, 1), rows, 0),
     err |-> "none"]

\* J[np.ix_(c, c)] = W[np.ix_(c, c)] for every clique c in turn, W the copy
\* of the weights taken when fit was entered; then the diagonal is zeroed.
RECURSIVE ix_set_weights(_, _, _, _, _)
ix_set_weights(J, n, Wm, cs, k) ==
    IF k > Len(cs) THEN J
    ELSE ix_set_weights(
            Mat(n, n, LAMBDA i, j :
                IF InList(cs[k], i, n) /\ InList(cs[k], j, n)
                THEN Wm[i][j] ELSE J[i][j]),
            n, Wm, cs, k + 1)

\* Mutant of weighted_sparse_W_matrix_J: writes 1, not the weight.
weighted_writes_ones(original_W_, rows, cliques_) ==
    [J   |-> fill_diagonal(ix_set_ones(Zeros(rows), rows, cliques_, 1), rows, 0),
     err |-> "none"]

weighted_sparse_W_matrix_J(original_W_, rows, cliques_) ==
    [J   |-> fill_diagonal(
                ix_set_weights(Zeros(rows), rows, original_W_, cliques_, 1), rows, 0),
     err |-> "none"]

RatZeros(n) == Mat(n, n, LAMBDA i, j : RatZero)

\* J[np.ix_(c, c)] += sign * inv(C[np.ix_(c, c)]) for the lists cs[k], ...
\* in turn; stops at the first one whose submatrix is singular.
RECURSIVE ix_add_inv(_, _, _, _, _, _)
ix_add_inv(J, n, C, cs, k, sign) ==
    IF k > Len(cs) THEN [J |-> J, err |-> "none"]
    ELSE LET c == cs[k]
             S == Submatrix(C, c)
         IN  IF Singular(S, Len(c)) THEN [J |-> J, err |-> "LinAlgError"]
             ELSE LET V == inv(S, Len(c))
                  IN  ix_add_inv(
                        Mat(n, n, LAMBDA i, j :
                            IF InList(c, i, n) /\ InList(c, j, n)
                            THEN IF sign > 0
                                 THEN RatAdd(J[i][j],
                                             V[PosIn(c, i, n)][PosIn(c, j, n)])
                                 ELSE RatSub(J[i][j],
                                             V[PosIn(c, i, n)][PosIn(c, j, n)])
                            ELSE J[i][j]),
                        n, C, cs, k + 1, sign)

\* Mutant of logo_J: the separators are not subtracted.
logo_without_separators(C, d, cliques_, separators_) ==
    ix_add_inv(RatZeros(d), d, C, cliques_, 1, 1)

logo_J(C, d, cliques_, separators_) ==
    LET a == ix_add_inv(RatZeros(d), d, C, cliques_, 1, 1)
    IN  IF a.err # "none" THEN a
        ELSE ix_add_inv(a.J, d, C, separators_, 1, -1)

-----------------------------------------------------------------------------
(* Steps of __compute_TMFG.                                                *)

\* The four faces of the seed clique.
seed_triangles(c) ==
    << <<c[1], c[2], c[3]>>, <<c[1], c[2], c[4]>>,
       <<c[1], c[3], c[4]>>, <<c[2], c[3], c[4]>> >>

\* self.W[np.diag_indices_from(self.W)] = 0 on a square array.
zero_diagonal(Wm, n) ==
    Mat(n, n, LAMBDA i, j : IF i = j THEN 0 ELSE Wm[i][j])

\* P[i0, i1] = W[i0, i1] for every pair (i0, i1) of combinations(c, 2).
set_P(Pm, Wm, n, c) ==
    Mat(n, n, LAMBDA i, j :
        IF \E a, b \in 1..Len(c) :
                a < b /\ PyIndex(c[a], n) = i /\ PyIndex(c[b], n) = j
        THEN Wm[i][j] ELSE Pm[i][j])

\* np.argmax: the first index holding the largest value of the array.
argmax(arr) ==
    CHOOSE t \in DOMAIN arr :
        /\ \A s \in DOMAIN arr : arr[s] <= arr[t]
        /\ \A s \in DOMAIN arr : arr[s] = arr[t] => t <= s

\* Number of iterations of the insertion loop (loop_range_one_more: its
\* mutant).
loop_range_one_more(n) == n - 3

loop_range(n) == n - 4

\* Mutant of thetraedron: the last vertex of the face is left out.
thetraedron_short(v, triangle) == <<v, triangle[1], triangle[2]>>

thetraedron(v, triangle) == <<v>> \o triangle

\* Mutant of retriangulate: the consumed face stays in its slot.
retriangulate_keeps_face(tris, t, newsep, v) ==
    tris \o << <<newsep[1], newsep[3], v>>, <<newsep[2], newsep[3], v>> >>

\* Mutant of retriangulate: the face (s0, s2, nv) is appended twice.
retriangulate_repeats_face(tris, t, newsep, v) ==
    [tris EXCEPT ![t + 1] = <<newsep[1], newsep[2], v>>]
        \o << <<newsep[1], newsep[3], v>>, <<newsep[1], newsep[3], v>> >>

\* The face at list position t becomes (s0, s1, nv); (s0, s2, nv) and
\* (s1, s2, nv) are appended.
retriangulate(tris, t, newsep, v) ==
    [tris EXCEPT ![t + 1] = <<newsep[1], newsep[2], v>>]
        \o << <<newsep[1], newsep[3], v>>, <<newsep[2], newsep[3], v>> >>

\* Mutant of indices_of_interest: no face is found stale.
indices_of_interest_none(bv, v) == {}

\* np.argwhere(self.best_vertex == nv)
indices_of_interest(bv, v) == {t \in DOMAIN bv : bv[t] = v}

\* get_best_gain stored into slot t, for every t of T.
refresh_gains(g, T, tris, vl, Wm) ==
    Arr([t \in DOMAIN g |->
        IF t \in T THEN get_best_gain(vl, tris[t + 1], Wm)[2] ELSE g[t]])

refresh_vertex(bv, T, tris, vl, Wm) ==
    Arr([t \in DOMAIN bv |->
        IF t \in T THEN get_best_gain(vl, tris[t + 1], Wm)[1] ELSE bv[t]])

\* A Python list or numpy array as an object: the allocation it comes from
\* and its contents.

\* Mutant of new_list: the field keeps the list object it has.
old_list(old) == old

\* self.cliques = [], self.separators = [], self.triangles = []: the field
\* is bound to a new, empty list; the list it was bound to is left as it is.
new_list(old) == [alloc |-> old.alloc + 1, items |-> <<>>]

\* Mutant of np_array: the array shares the memory of its argument.
np_asarray(a) == [entries |-> a, shares |-> TRUE]

\* np.array(a): a new array with the entries of a, sharing nothing with a.
np_array(a) == [entries |-> a, shares |-> FALSE]

-----------------------------------------------------------------------------
VARIABLES
    pc,         \* "idle": no call in progress; "loop": inside fit, at the
                \* head of the insertion loop of __compute_TMFG
    exc,        \* the exception the call to fit raised; "none" while it
                \* runs, when it returned and before it is called
    ret,        \* the outcome of the last call that ended: the exception it
                \* raised ("none": it returned) and the value it returned
    weights, cov_arg, output,       \* the arguments of the call to fit
    has_attrs,  \* the instance has its attributes (fit has been entered)
    W, original_W, logo, unweighted_sparse_W_matrix, weighted_sparse_W_matrix,
    N, P, max_clique_gains, best_vertex, cliques, separators, triangles,
    vertex_list, peo, J, cov,       \* the fields of the instance
    u, nt, nv,                      \* locals of __compute_TMFG (nt, nv are
                                    \* -1 until the loop assigns them)
    caller_weights, caller_cov,     \* the entries, as they are now, of the
                                    \* matrix objects the caller passed to fit
    alloc,      \* the allocation the lists self.cliques, self.separators and
                \* self.triangles come from (0: no list yet)
    calls,      \* number of calls to fit made on the instance
    first       \* the first call to fit, recorded when the second call
                \* starts: its arguments, the exception it raised, the
                \* objects self.cliques, self.separators and self.J it left
                \* (the ones fit_transform and transform hand out) with their
                \* contents at that moment, and their allocation

args   == <<weights, cov_arg, output>>
fields == <<has_attrs, W, original_W, logo, unweighted_sparse_W_matrix,
            weighted_sparse_W_matrix, N, P, max_clique_gains, best_vertex,
            cliques, separators, triangles, vertex_list, peo, J, cov>>
locals == <<u, nt, nv>>
\* What no step of a call writes once fit is entered.
kept   == <<caller_weights, caller_cov, alloc, calls, first>>
vars   == <<pc, exc, ret, args, fields, locals, kept>>

Returned(v) == [raised |-> "none", value |-> v]
Raised(e)   == [raised |-> e, value |-> None]

\* TMFG(): __init__ sets no attribute.
Init ==
    /\ pc = "idle" /\ exc = "none" /\ ret = Returned(None)
    /\ weights = <<>> /\ cov_arg = <<>> /\ output = ""
    /\ has_attrs = FALSE
    /\ W = <<>> /\ original_W = <<>>
    /\ logo = FALSE /\ unweighted_sparse_W_matrix = FALSE
    /\ weighted_sparse_W_matrix = FALSE
    /\ N = 0 /\ P = <<>> /\ max_clique_gains = <<>> /\ best_vertex = <<>>
    /\ cliques = <<>> /\ separators = <<>> /\ triangles = <<>>
    /\ vertex_list = {} /\ peo = <<>> /\ J = None /\ cov = <<>>
    /\ u = 0 /\ nt = -1 /\ nv = -1
    /\ caller_weights = <<>> /\ caller_cov = <<>>
    /\ alloc = 0 /\ calls = 0
    /\ first = [args |-> <<>>, exc |-> "none", value |-> <<>>, alloc |-> 0]

\* fit(weights, cov, output) from its entry to the head of the insertion
\* loop: the field set-up of fit and the seed phase of __compute_TMFG.  A
\* weight matrix that is not square makes np.diag_indices_from raise
\* ValueError once the seed clique, faces and PEO are in place.
fit(weights_, cov_, output_) ==
    \E c0 \in {max_clique(weights_, Cols(weights_))},
       Wz \in {zero_diagonal(weights_, Cols(weights_))} :
    LET n    == Cols(weights_)
        vl   == Idx(n) \ {c0[k] : k \in 1..4}
        cl   == new_list([alloc |-> alloc, items |-> cliques])
        sp   == new_list([alloc |-> alloc, items |-> separators])
        tr   == new_list([alloc |-> alloc, items |-> triangles])
        tris == tr.items \o seed_triangles(c0)
        Wa   == np_array(weights_)
        g0   == Arr([t \in Idx(3 * n - 6) |-> 0])
        bv0  == Arr([t \in Idx(3 * n - 6) |-> -1])
    IN  /\ weights' = weights_ /\ cov_arg' = cov_ /\ output' = output_
        /\ has_attrs' = TRUE
        /\ original_W' = weights_
        /\ logo' = (output_ = "logo")
        /\ unweighted_sparse_W_matrix' = (output_ = "unweighted_sparse_W_matrix")
        /\ weighted_sparse_W_matrix' = (output_ = "weighted_sparse_W_matrix")
        /\ N' = n
        /\ separators' = sp.items
        /\ alloc' = cl.alloc
        /\ J' = None
        /\ cov' = cov_
        /\ caller_cov' = cov_
        /\ cliques' = Append(cl.items, c0)
        /\ vertex_list' = vl
        /\ triangles' = tris
        /\ peo' = c0
        /\ nt' = -1 /\ nv' = -1 /\ u' = 0
        /\ IF Rows(weights_) # n
           THEN /\ W' = Wa.entries
                /\ caller_weights' = weights_
                /\ P' = Zeros(n)
                /\ max_clique_gains' = g0
                /\ best_vertex' = bv0
                /\ pc' = "idle" /\ exc' = "ValueError"
                /\ ret' = Raised("ValueError")
           ELSE /\ W' = Wz
                /\ caller_weights' = IF Wa.shares THEN Wz ELSE weights_
                /\ P' = set_P(Zeros(n), Wz, n, c0)
                /\ max_clique_gains' = refresh_gains(g0, Idx(4), tris, vl, Wz)
                /\ best_vertex' = refresh_vertex(bv0, Idx(4), tris, vl, Wz)
                /\ pc' = "loop" /\ exc' = "none"
                /\ ret' = ret

\* One iteration of the insertion loop.  Selecting a slot that holds no face
\* raises IndexError at self.triangles[nt], after nv was appended to the PEO.
InsertStep ==
    /\ pc = "loop" /\ u < loop_range(N)
    /\ \E t \in {argmax(max_clique_gains)} :
       LET v      == best_vertex[t]
       IN  /\ nt' = t /\ nv' = v
           /\ peo' = Append(peo, v)
           /\ IF t >= Len(triangles)
              THEN /\ pc' = "idle" /\ exc' = "IndexError"
                   /\ ret' = Raised("IndexError")
                   /\ UNCHANGED <<args, has_attrs, W, original_W, logo,
                                  unweighted_sparse_W_matrix,
                                  weighted_sparse_W_matrix, N, P,
                                  max_clique_gains, best_vertex, cliques,
                                  separators, triangles, vertex_list, J, cov, u,
                                  kept>>
              ELSE LET newsep == triangles[t + 1]
                       th     == thetraedron(v, newsep)
                       tris   == retriangulate(triangles, t, newsep, v)
                       vl     == vertex_list \ {v}
                       ct     == Len(tris) - 1
                       g1     == IF vl # {}
                                 THEN refresh_gains(max_clique_gains,
                                        indices_of_interest(best_vertex, v),
                                        tris, vl, W)
                                 ELSE max_clique_gains
                       bv1    == IF vl # {}
                                 THEN refresh_vertex(best_vertex,
                                        indices_of_interest(best_vertex, v),
                                        tris, vl, W)
                                 ELSE best_vertex
                       g2     == [g1 EXCEPT ![t] = 0]
                   IN  /\ cliques' = Append(cliques, th)
                       /\ P' = set_P(P, W, N, th)
                       /\ separators' = Append(separators, newsep)
                       /\ triangles' = tris
                       /\ vertex_list' = vl
                       /\ max_clique_gains' =
                            IF vl # {}
                            THEN refresh_gains(g2, {t, ct - 1, ct}, tris, vl, W)
                            ELSE g2
                       /\ best_vertex' =
                            IF vl # {}
                            THEN refresh_vertex(bv1, {t, ct - 1, ct}, tris, vl, W)
                            ELSE bv1
                       /\ u' = u + 1
                       /\ UNCHANGED <<pc, exc, ret, args, has_attrs, W,
                                      original_W, logo,
                                      unweighted_sparse_W_matrix,
                                      weighted_sparse_W_matrix, N, J, cov, kept>>

\* The projector __compute_TMFG runs for the flags fit has set.
project_J ==
    IF logo THEN logo_J(cov, Rows(cov), cliques, separators)
    ELSE IF unweighted_sparse_W_matrix
         THEN unweighted_sparse_W_matrix_J(original_W, Rows(original_W), cliques)
         ELSE weighted_sparse_W_matrix_J(original_W, Rows(original_W), cliques)

\* After the loop: the projector runs and the call returns, fit with None
\* and fit_transform with the three fields; an exception of the projector
\* leaves the call with the fields as they are.
Project ==
    /\ pc = "loop" /\ u = loop_range(N)
    /\ \E r \in {project_J} :
           /\ J' = r.J
           /\ exc' = r.err
           /\ pc' = "idle"
           /\ IF r.err = "none"
              THEN \E api \in {"fit", "fit_transform"} :
                     ret' = IF api = "fit" THEN Returned(None)
                            ELSE Returned(<<cliques, separators, r.J>>)
              ELSE ret' = Raised(r.err)
    /\ UNCHANGED <<args, has_attrs, W, original_W, logo, unweighted_sparse_W_matrix,
                   weighted_sparse_W_matrix, N, P, max_clique_gains, best_vertex,
                   cliques, separators, triangles, vertex_list, peo, cov, locals,
                   kept>>

\* transform() on an instance fit was called on, whether fit returned or
\* raised; on a fresh instance it raises AttributeError.
transform ==
    /\ pc = "idle"
    /\ IF ~has_attrs
       THEN ret' = Raised("AttributeError")
       ELSE ret' = Returned(<<cliques, separators, J>>)
    /\ UNCHANGED <<pc, exc, args, fields, locals, kept>>

\* A call to fit from outside: fit, counted; the second call finds the
\* outcome of the first in the fields and the lists they are bound to.
Call(weights_, cov_, output_) ==
    /\ fit(weights_, cov_, output_)
    /\ calls' = calls + 1
    /\ first' = IF calls = 1
                THEN [args  |-> <<weights, cov_arg, output>>,
                      exc   |-> exc,
                      value |-> <<cliques, separators, J>>,
                      alloc |-> alloc]
                ELSE first

\* The calls to fit, on a fresh instance: 4 <= n <= MaxN vertices, a weight
\* matrix that is square or has one row too many, a covariance matrix of
\* dimension n or n + 1.
Next ==
    \/ /\ pc = "idle" /\ ~has_attrs
       /\ \E n \in 4..MaxN, call \in Calls, b \in {0, 1} :
            \E t \in [1..(n - 1) -> WeightValues] :
               \E w \in {WeightMatrix(n, n + call[1], t, b)},
                  c \in {CovMatrix(n + call[3], call[2])} : Call(w, c, call[4])
    \/ InsertStep
    \/ Project
    \/ transform

Spec == Init /\ [][Next]_vars

\* Repeated calls to fit on one instance: a first call, then calls that
\* either repeat the arguments of the first call or, as the second call only,
\* pass other arguments (matrices of constant weight v on 4 or RefitMaxN
\* vertices, in every shape of Calls).
RepeatedArgs == IF calls = 1 THEN <<weights, cov_arg, output>> ELSE first.args

FirstCall ==
    /\ pc = "idle" /\ calls = 0
    /\ \E n \in 4..RefitMaxN, call \in Calls :
         \E t \in [1..(n - 1) -> {-1, 1}] :
            \E w \in {WeightMatrix(n, n + call[1], t, 0)},
               c \in {CovMatrix(n + call[3], call[2])} : Call(w, c, call[4])

OtherCall ==
    /\ pc = "idle" /\ calls = 1
    /\ \E n \in {4, RefitMaxN}, call \in Calls, v \in {-1, 1} :
         \E w \in {WeightMatrix(n, n + call[1], [k \in 1..(n - 1) |-> v], 0)},
            c \in {CovMatrix(n + call[3], call[2])} : Call(w, c, call[4])

RepeatedCall ==
    /\ pc = "idle" /\ calls \in 1..(MaxCalls - 1)
    /\ \E a \in {RepeatedArgs} : Call(a[1], a[2], a[3])

RefitNext ==
    \/ FirstCall
    \/ OtherCall
    \/ RepeatedCall
    \/ InsertStep
    \/ Project
    \/ transform

SpecRefit == Init /\ [][RefitNext]_vars

-----------------------------------------------------------------------------
(* Vocabulary of the properties.                                           *)

\* The call to fit has ended: it returned, or it raised exc.
FitEnded    == has_attrs /\ pc = "idle"
FitReturned == FitEnded /\ exc = "none"
FitRaised   == FitEnded /\ exc # "none"

SquareWeights == Rows(weights) = Cols(weights)
MatchingCov   == Rows(cov_arg) = Cols(weights) /\ Cols(cov_arg) = Cols(weights)

\* Vertices i and j lie together in some clique of the clique list.
SharesClique(i, j) ==
    \E k \in 1..Len(cliques) :
        (\E a \in 1..Len(cliques[k]) : cliques[k][a] = i)
     /\ (\E a \in 1..Len(cliques[k]) : cliques[k][a] = j)

\* The unordered pairs of distinct vertices that share a clique.
CliquePairs ==
    {e \in {{i, j} : i, j \in Idx(N)} :
        Cardinality(e) = 2 /\ \A i, j \in e : SharesClique(i, j)}

\* The unordered pairs {i, j}, i # j, with J[i,j] nonzero, in a sparse mode.
NonzeroPairs ==
    {e \in {{i, j} : i, j \in Idx(N)} :
        Cardinality(e) = 2 /\ \E i, j \in e : i # j /\ J[i][j] # 0}

\* The zero of the entries of J: a rational in inverse-covariance mode.
ZeroOfJ == IF logo THEN RatZero ELSE 0

Symmetric(M) == \A i, j \in DOMAIN M : M[i][j] = M[j][i]
ZeroDiagonal(M) == \A i \in DOMAIN M : M[i][i] = ZeroOfJ

SeqToSet(q) == {q[k] : k \in 1..Len(q)}

\* The list q holds every vertex of 0..N-1 exactly once.
IsPermutation(q) == Len(q) = N /\ SeqToSet(q) = Idx(N)

-----------------------------------------------------------------------------
(* C1..C5 *)

\* C1 (as claimed): for every square weight matrix with N >= 4, negative
\* entries included, when fit is over the clique list has N-3 entries, the
\* separator list N-4 and the PEO holds every vertex of 0..N-1 exactly once.
C1_Counts ==
    (FitEnded /\ SquareWeights) =>
        /\ Len(cliques) = N - 3
        /\ Len(separators) = N - 4
        /\ IsPermutation(peo)

\* C2 (as claimed): in both sparse modes the number of unordered pairs
\* {i,j}, i # j, with J[i,j] nonzero is exactly 3N-6.
C2_NonzeroCount ==
    (FitReturned /\ output \in {"unweighted_sparse_W_matrix",
                                "weighted_sparse_W_matrix"}) =>
        Cardinality(NonzeroPairs) = 3 * N - 6

\* C2 (amended): in both sparse modes the cliques cover exactly 3N-6
\* unordered pairs; in unweighted mode J is nonzero on all of them, in
\* weighted mode J is nonzero on exactly those whose weight is nonzero.
C2_RetainedEdges ==
    (FitReturned /\ output \in {"unweighted_sparse_W_matrix",
                                "weighted_sparse_W_matrix"}) =>
        /\ Cardinality(CliquePairs) = 3 * N - 6
        /\ unweighted_sparse_W_matrix => NonzeroPairs = CliquePairs
        /\ weighted_sparse_W_matrix =>
             NonzeroPairs =
                {e \in CliquePairs : \E i, j \in e : i # j /\ weights[i][j] # 0}

\* C2 witness: a weighted run on N = 6 that returned with a retained edge of
\* weight 0, so that J has fewer than 3N-6 nonzero pairs.
C2_Witness ==
    /\ FitReturned /\ output = "weighted_sparse_W_matrix" /\ N = 6
    /\ Cardinality(CliquePairs) = 12
    /\ Cardinality(NonzeroPairs) < 12

C4_InvalidModeRejected ==
    (has_attrs /\ output \notin Modes) =>
        /\ J = None
        /\ ret.value = None
        /\ pc = "idle" => exc # "none"

\* C5: in unweighted mode J[i,j] = 1 exactly when i # j and i, j share a
\* clique, and J[i,j] = 0 in every other cell.
C5_Unweighted ==
    (FitReturned /\ output = "unweighted_sparse_W_matrix" /\ SquareWeights) =>
        /\ DOMAIN J = Idx(N)
        /\ \A i, j \in Idx(N) :
              J[i][j] = IF i # j /\ SharesClique(i, j) THEN 1 ELSE 0

\* C5 witness: an unweighted run on N = 6 that returned, with a pair of
\* vertices in a common clique and a pair in none.
C5_Witness ==
    /\ FitReturned /\ output = "unweighted_sparse_W_matrix" /\ N = 6
    /\ \E i, j \in Idx(N) : i # j /\ J[i][j] = 1
    /\ \E i, j \in Idx(N) : i # j /\ J[i][j] = 0 /\ ~SharesClique(i, j)

-----------------------------------------------------------------------------
(* C6..C10 *)

\* C6: in weighted mode J[i,j] is the entry [i,j] of the weight matrix as
\* the caller passed it for every i # j sharing a clique and 0 in every
\* other cell, and the cells written are those the unweighted projector
\* sets to 1 on the same cliques.
C6_Weighted ==
    (FitReturned /\ output = "weighted_sparse_W_matrix") =>
        LET U == unweighted_sparse_W_matrix_J(original_W, N, cliques).J
        IN  /\ DOMAIN J = Idx(N)
            /\ \A i, j \in Idx(N) :
                  /\ J[i][j] = IF i # j /\ SharesClique(i, j)
                               THEN weights[i][j] ELSE 0
                  /\ (i # j /\ SharesClique(i, j)) <=> U[i][j] = 1

\* C6 witness: a weighted run on N = 6 that returned with a negative weight
\* copied into J, a pair of vertices in no common clique, and a weight
\* matrix whose diagonal is not zero.
C6_Witness ==
    /\ FitReturned /\ output = "weighted_sparse_W_matrix" /\ N = 6
    /\ \E i, j \in Idx(N) : i # j /\ J[i][j] = -1
    /\ \E i, j \in Idx(N) : i # j /\ ~SharesClique(i, j) /\ weights[i][j] # 0
    /\ weights[0][0] = 1

AllPairs == {e \in {{i, j} : i, j \in Idx(N)} : Cardinality(e) = 2}

\* What the claim says of a run on 4 vertices apart from J: no iteration
\* of the loop, the seed clique alone, no separator, the PEO equal to the
\* seed clique, every initial face with the gain record (-1, 0).
SeedOnly ==
    /\ u = 0 /\ nt = -1 /\ nv = -1
    /\ Len(cliques) = 1 /\ SeqToSet(cliques[1]) = Idx(4)
    /\ separators = <<>>
    /\ peo = cliques[1]
    /\ Len(triangles) = 4
    /\ \A t \in Idx(4) : best_vertex[t] = -1 /\ max_clique_gains[t] = 0

\* C7 (as claimed): for N = 4 the run is the seed alone and J in the sparse
\* modes has exactly the 6 edges of the complete graph on the 4 vertices.
C7_SeedOnlyCompleteGraph ==
    (has_attrs /\ N = 4 /\ SquareWeights) =>
        /\ SeedOnly
        /\ (FitReturned /\ output \in {"unweighted_sparse_W_matrix",
                                       "weighted_sparse_W_matrix"}) =>
              NonzeroPairs = AllPairs

\* C7 (amended): for N = 4 the run is the seed alone; in the sparse modes
\* every cell of J off the diagonal is written from the seed clique, with 1
\* in unweighted mode and with the weight in weighted mode (6 edges unless a
\* weight is 0).
C7_SeedOnlyAllPairsWritten ==
    (has_attrs /\ N = 4 /\ SquareWeights) =>
        /\ SeedOnly
        /\ (FitReturned /\ output \in {"unweighted_sparse_W_matrix",
                                       "weighted_sparse_W_matrix"}) =>
              \A i, j \in Idx(4) :
                 J[i][j] = IF i = j THEN 0
                           ELSE IF unweighted_sparse_W_matrix THEN 1
                           ELSE weights[i][j]

\* C7 witness: a weighted run on N = 4 that returned with a weight 0, and so
\* with fewer than 6 nonzero pairs in J.
C7_Witness ==
    /\ FitReturned /\ N = 4 /\ output = "weighted_sparse_W_matrix"
    /\ Cardinality(NonzeroPairs) < 6

\* C8 (as claimed): a weight matrix that is not square, or a covariance
\* matrix of another dimension, is reported as an error before the seed is
\* selected: no clique, separator or J exists for such a call.
C8_DimensionRejected ==
    (has_attrs /\ (~SquareWeights \/ ~MatchingCov)) =>
        /\ pc = "idle" /\ exc # "none"
        /\ cliques = <<>> /\ separators = <<>> /\ J = None

\* C9 (as claimed): after a fit that raised, no call on the instance
\* returns cliques, separators or a J.
C9_NoPartialResult ==
    FitRaised => ret.value = None

\* C10 (as claimed): at every insertion step the selected index nt is the
\* lowest index among the faces whose cached gain is maximal.
C10_LowestMaximalFace ==
    [][(pc = "loop" /\ peo' # peo) =>
        /\ nt' \in Idx(Len(triangles))
        /\ \A t \in Idx(Len(triangles)) :
              /\ max_clique_gains[t] <= max_clique_gains[nt']
              /\ max_clique_gains[t] = max_clique_gains[nt'] => nt' <= t]_vars

-----------------------------------------------------------------------------
(* C11..C15 *)

\* The faces of the frontier, as indices into the gain arrays.
Faces == Idx(Len(triangles))

\* The contents now of the objects the first call left in self.cliques,
\* self.separators and self.J: those of the fields while the fields are
\* still bound to these objects, the recorded ones once fit has bound the
\* fields to new objects.
HeldByCaller ==
    IF first.alloc = alloc THEN <<cliques, separators, J>> ELSE first.value

\* C11: a call to fit on an instance fit was called on before ends as the
\* call with the same arguments on a fresh instance did (the same exception
\* or the same cliques, separators and J), and the objects the first call
\* left keep the contents they had.
C11_NoStateSurvives ==
    calls >= 2 =>
        /\ HeldByCaller = first.value
        /\ (FitEnded /\ <<weights, cov_arg, output>> = first.args) =>
              /\ exc = first.exc
              /\ <<cliques, separators, J>> = first.value

\* C11 witness: the third call on an instance, with the arguments of the
\* first, has returned after N - 4 = 1 insertion; the first call had
\* returned too.
C11_Witness ==
    /\ calls = 3 /\ FitReturned /\ N = 5
    /\ <<weights, cov_arg, output>> = first.args
    /\ first.exc = "none" /\ Len(first.value[1]) = 2

\* C12 (as claimed): at every insertion step the selected index nt is the
\* slot of a face of the frontier, whose cached gain record is not the one of
\* an unused slot, and the cached vertex nv of that face is a vertex that is
\* unplaced, not the sentinel -1.
C12_SelectsFaceAndUnplacedVertex ==
    [][(pc = "loop" /\ peo' # peo) =>
        /\ nt' < Len(triangles)
        /\ nv' # -1
        /\ nv' \in vertex_list]_vars

\* C13: after every insertion step that leaves a vertex unplaced, the cached
\* record of every face of the frontier is what get_best_gain yields for
\* that face on the vertices now unplaced.
C13_IncrementalEqualsFull ==
    (pc = "loop" /\ u >= 1 /\ vertex_list # {}) =>
        \A t \in Faces :
            <<best_vertex[t], max_clique_gains[t]>>
                = get_best_gain(vertex_list, triangles[t + 1], W)

\* C13 witness: after an insertion step that leaves a vertex unplaced, a
\* face other than the three the step wrote had the inserted vertex nv as
\* its best vertex (its record went stale with the step).
C13_Witness ==
    /\ pc = "loop" /\ u >= 1 /\ vertex_list # {}
    /\ \E t \in Idx(Len(triangles) - 2) :
          /\ t # nt
          /\ get_best_gain(vertex_list \cup {nv}, triangles[t + 1], W)[1] = nv

\* C14: when fit has returned, the weight matrix and the covariance matrix
\* the caller passed have the entries they had when passed; the diagonal of
\* the working copy self.W is zero.
C14_InputsUnchanged ==
    FitReturned =>
        /\ caller_weights = weights
        /\ caller_cov = cov_arg
        /\ \A i \in Idx(N) : W[i][i] = 0

\* C14 witness: fit has returned on N = 6 in inverse-covariance mode; the
\* caller's weight matrix has a nonzero diagonal, the working copy a zero
\* one.
C14_Witness ==
    /\ FitReturned /\ N = 6 /\ logo
    /\ caller_weights[0][0] = 1 /\ W[0][0] = 0

\* C15 (as claimed): every insertion step appends the face stored at slot nt
\* before the step as the next separator, appends nv followed by the three
\* vertices of that face as the next clique (4 distinct vertices), appends
\* nv to the PEO, and leaves the cliques and separators appended before as
\* they are.
C15_StepAppendsSeparatorAndClique ==
    [][(pc = "loop" /\ peo' # peo) =>
        /\ nt' \in Faces
        /\ separators' = Append(separators, triangles[nt' + 1])
        /\ cliques' = Append(cliques, <<nv'>> \o triangles[nt' + 1])
        /\ Cardinality(SeqToSet(cliques'[Len(cliques')])) = 4
        /\ peo' = Append(peo, nv')]_vars

-----------------------------------------------------------------------------
(* C16..C20 *)

\* C16 (as claimed): every insertion step overwrites the face (s0, s1, s2)
\* at slot nt with (s0, s1, nv), appends (s0, s2, nv) and (s1, s2, nv), and
\* leaves every other slot as it is, so that the frontier has 4 + 2u faces
\* after u insertions; when fit is over on a square weight matrix it has
\* 4 + 2(N-4) faces.
C16_RetriangulationFrame ==
    /\ []((FitEnded /\ SquareWeights) => Len(triangles) = 4 + 2 * (N - 4))
    /\ [][(pc = "loop" /\ peo' # peo) =>
            /\ nt' \in Faces
            /\ LET s == triangles[nt' + 1]
               IN  triangles' =
                     [triangles EXCEPT ![nt' + 1] = <<s[1], s[2], nv'>>]
                        \o << <<s[1], s[3], nv'>>, <<s[2], s[3], nv'>> >>
            /\ Len(triangles') = 4 + 2 * u']_vars

\* The entry for the vertices (i, j) of the inverse of the covariance matrix
\* restricted to the vertices of the list c, which holds i and j: the
\* cofactor of (j, i) over the determinant, both taken in cov itself.
LocalInverse(c, i, j) ==
    LET a == CHOOSE k \in 1..Len(c) : c[k] = i
        b == CHOOSE k \in 1..Len(c) : c[k] = j
    IN  Rat((IF (a + b) % 2 = 0 THEN 1 ELSE -1)
                * Minor(cov, Drop(c, b), Drop(c, a)), Minor(cov, c, c))

\* Sum of LocalInverse(c, i, j) over the lists c = cs[k], cs[k+1], ... that
\* hold both i and j.
RECURSIVE SumLocalInverses(_, _, _, _)
SumLocalInverses(cs, k, i, j) ==
    IF k > Len(cs) THEN RatZero
    ELSE RatAdd(IF i \in SeqToSet(cs[k]) /\ j \in SeqToSet(cs[k])
                THEN LocalInverse(cs[k], i, j) ELSE RatZero,
                SumLocalInverses(cs, k + 1, i, j))

\* C17: in inverse-covariance mode the cells (i, j) and (j, i) of the
\* returned J both are the sum of the local inverses of the cliques holding
\* i and j minus the sum of those of the separators holding both, each taken
\* once; the cell of two distinct vertices that share no clique is 0.
C17_LogoLocalGlobal ==
    (FitReturned /\ logo) =>
        \A i, j \in Idx(Rows(cov)) :
            /\ i <= j =>
                 /\ J[i][j] = RatSub(SumLocalInverses(cliques, 1, i, j),
                                     SumLocalInverses(separators, 1, i, j))
                 /\ J[j][i] = J[i][j]
            /\ (i # j /\ ~SharesClique(i, j)) => J[i][j] = RatZero

\* C17 witness: an inverse-covariance run on N = 6 that returned, with two
\* vertices that share no clique and two that lie together in a separator
\* and have a nonzero cell.
C17_Witness ==
    /\ FitReturned /\ logo /\ N = 6
    /\ \E i, j \in Idx(N) : i # j /\ ~SharesClique(i, j)
    /\ \E k \in 1..Len(separators) :
          \E i, j \in SeqToSet(separators[k]) : i # j /\ J[i][j] # RatZero

\* The vertices of face t of the frontier, as a set.
FaceSet(t) == SeqToSet(triangles[t + 1])

\* The edges retained so far: the unordered pairs of distinct vertices that
\* lie together in some clique.
RetainedEdges ==
    UNION {{{cliques[k][a], cliques[k][b]} : a, b \in 1..Len(cliques[k])}
              : k \in 1..Len(cliques)}
        \ {{i} : i \in Idx(N)}

\* C18: at the head of the insertion loop after u insertions, 4 + u
\* vertices are placed, the cliques cover 6 + 3u unordered pairs, the
\* frontier has 4 + 2u faces, and every pair the cliques cover lies in
\* exactly two faces of the frontier.
C18_ClosedSphere ==
    pc = "loop" =>
        /\ N - Cardinality(vertex_list) = 4 + u
        /\ Len(triangles) = 4 + 2 * u
        /\ \A E \in {RetainedEdges} :
              /\ Cardinality(E) = 6 + 3 * u
              /\ \A e \in E :
                    Cardinality({t \in Faces : e \subseteq FaceSet(t)}) = 2

\* C18 witness: the head of the loop on N = 6 after two insertions, the
\* second of which consumed a face the first one created.
C18_Witness ==
    /\ pc = "loop" /\ N = 6 /\ u = 2
    /\ peo[5] \in SeqToSet(separators[2])

\* C19: the k-th separator has 3 vertices, all of them among the 3 + k
\* vertices placed before step k, and is a subset of one of the first k
\* cliques (the ones appended before step k appends clique k + 1).
C19_RunningIntersection ==
    \A k \in 1..Len(separators) :
        /\ Cardinality(SeqToSet(separators[k])) = 3
        /\ SeqToSet(separators[k]) \subseteq SeqToSet(SubSeq(peo, 1, 3 + k))
        /\ \E m \in 1..k : SeqToSet(separators[k]) \subseteq SeqToSet(cliques[m])

\* C19 witness: on N = 6 the second separator is no face of the seed clique:
\* it holds the vertex the first step inserted, and lies in the second
\* clique.
C19_Witness ==
    /\ N = 6 /\ Len(separators) = 2
    /\ ~(SeqToSet(separators[2]) \subseteq SeqToSet(cliques[1]))
    /\ SeqToSet(separators[2]) \subseteq SeqToSet(cliques[2])

\* C20: the faces of the frontier are pairwise distinct vertex sets of 3
\* placed vertices each; no separator (consumed face) is a face of the
\* frontier, and no two separators are the same vertex set.
C20_FacesDistinct ==
    /\ \A t \in Faces :
          /\ Cardinality(FaceSet(t)) = 3
          /\ FaceSet(t) \subseteq Idx(N) \ vertex_list
    /\ \A F \in {{FaceSet(t) : t \in Faces}},
          S \in {{SeqToSet(separators[k]) : k \in 1..Len(separators)}} :
          /\ Cardinality(F) = Len(triangles)
          /\ Cardinality(S) = Len(separators)
          /\ F \cap S = {}

\* C20 witness: on N = 6 both insertions are done: 8 faces, 2 separators.
C20_Witness ==
    /\ N = 6 /\ Len(triangles) = 8 /\ Len(separators) = 2

====
